---- MODULE Spec2Model ----
(***************************************************************************)
(* The Spaces client of cli/internal/runsummary/spaces.go: a pool of       *)
(* worker goroutines that receive request descriptors from an unbuffered   *)
(* channel, the first-request gate, the shared error slice and the run     *)
(* handle, driven by an orchestrator that calls startRun, postTask,        *)
(* finishRun and Close.                                                    *)
(* The payload builders of finishRun and postTask, with the JSON encoding   *)
(* of the structs they return, are checked on their own (PayloadSpec).     *)
(*                                                                         *)
(* The worker goroutines are anonymous in the source (eight copies of one  *)
(* closure), so the pool is the bag of the workers' local states.          *)
(***************************************************************************)
EXTENDS Integers, Sequences, FiniteSets, Bags, TLC

\* Largest number of postTask calls the orchestrator issues in one run.
MaxTasks == 2

\* The same, in the runs checked for liveness.
MaxFairTasks == 1

\* The same, in the runs where postTask is called before startRun has returned.
MaxEarlyTasks == 1

\* processors := 8
processors == 8

VARIABLES
    rsm,            \* c.rsm: spaceID is "" when no space is configured
    api,            \* c.api: linked is what IsLinked() returns
    plan,           \* the run the orchestrator reports: its tasks, the call sequences it may make
    called,         \* the calls the orchestrator has made so far, in order
    mainPc,         \* where the orchestrator's thread is inside its current call
    posters,        \* the goroutines calling postTask: task -> "send" | "returned"
    workers,        \* the bag of the worker goroutines' local states
    wg,             \* c.wg: workers that have not called Done
    requestsClosed, \* whether c.requests is closed
    firstReqDone,   \* the flag guarded by mu
    created,        \* whether c.run.created is closed
    run,            \* c.run: the ID and URL the server assigned
    errors,         \* c.errors
    panic,          \* "none", or the runtime panic that ended the process
    hist,           \* per descriptor: what has happened to it (history)
    summary,        \* the run summary or task summary handed to a payload builder
    body            \* the payload a builder returned, and its JSON encoding

vars == <<rsm, api, plan, called, mainPc, posters, workers, wg, requestsClosed,
          firstReqDone, created, run, errors, panic, hist, summary, body>>

----------------------------------------------------------------------------
\* Endpoints and request descriptors

\* runsEndpoint = "/v0/spaces/%s/runs"
runsEndpoint(space) == <<"/v0/spaces", space, "runs">>

\* runsPatchEndpoint = "/v0/spaces/%s/runs/%s"
runsPatchEndpoint(space, id) == <<"/v0/spaces", space, "runs", id>>

\* tasksEndpoint = "/v0/spaces/%s/runs/%s/tasks"
tasksEndpoint(space, id) == <<"/v0/spaces", space, "runs", id, "tasks">>

StartKey == <<"start", 0>>
FinishKey == <<"finish", 0>>
TaskKey(t) == <<"task", t>>
Keys == {StartKey, FinishKey} \cup {TaskKey(t) : t \in 1..MaxTasks}

\* The descriptor startRun sends: a fixed URL, no makeURL, an onDone handler.
StartRunRequest ==
    [key |-> StartKey, method |-> "POST", url |-> runsEndpoint(rsm.spaceID),
     makeURL |-> "nil", onDone |-> "startRun"]

\* The descriptor postTask sends: the URL is made lazily, no onDone.
PostTaskRequest(t) ==
    [key |-> TaskKey(t), method |-> "POST", url |-> <<>>,
     makeURL |-> "postTask", onDone |-> "nil"]

\* The descriptor finishRun sends.
FinishRunRequest ==
    [key |-> FinishKey, method |-> "PATCH", url |-> <<>>,
     makeURL |-> "finishRun", onDone |-> "nil"]

NoReq == [key |-> <<"none", 0>>, method |-> "", url |-> <<>>,
          makeURL |-> "nil", onDone |-> "nil"]

\* req.error(msg): the message prefixed with the request's method and URL.
\* key is history: the descriptor the entry was recorded for.
ReqError(req, msg) ==
    [prefix |-> <<req.method, req.url>>, msg |-> msg, key |-> req.key]

\* fmt.Errorf(msg): a bare message.
Errorf(req, msg) == [prefix |-> <<>>, msg |-> msg, key |-> req.key]

NoErr == [prefix |-> <<>>, msg |-> "", key |-> <<"none", 0>>]

\* The makeURL closures of postTask and finishRun: they fail on an empty run ID.
MakeURLError(req, r) ==
    IF req.makeURL = "postTask"
    THEN Errorf(req, "No Run ID found to post task")
    ELSE Errorf(req, "No Run ID found to send PATCH request")

MakeURL(req, r) ==
    IF req.makeURL = "postTask"
    THEN [req EXCEPT !.url = tasksEndpoint(rsm.spaceID, r.ID)]
    ELSE [req EXCEPT !.url = runsPatchEndpoint(rsm.spaceID, r.ID)]

----------------------------------------------------------------------------
\* Payload builders and their JSON encoding

\* Largest whole second of the times in the summaries.
MaxSec == 1

\* Largest exit code of a run or a task.
MaxExitCode == 2

\* Largest TimeSaved of a cache summary.
MaxTimeSaved == 1

\* time.Time values: seconds and nanoseconds since the Unix epoch.
Times == [sec : 0..MaxSec, nsec : {0, 999999, 1000000}]

\* t.UnixMilli()
UnixMilli(t) == t.sec * 1000 + t.nsec \div 1000000

\* One field of a struct as encoding/json sees it: the name in its tag ("-"
\* for a field that is skipped), its kind, the omitempty option, its value.
Field(name, kind, omitempty, value) ==
    [name |-> name, kind |-> kind, omitempty |-> omitempty, value |-> value]

\* The empty values of omitempty: "", 0 and a slice of length 0; a struct is
\* never empty.
IsEmptyValue(f) ==
    CASE f.kind = "string" -> f.value = ""
      [] f.kind = "int" -> f.value = 0
      [] f.kind = "slice" -> Len(f.value) = 0
      [] OTHER -> FALSE

\* json.Marshal of a struct: the object of its fields, without those tagged
\* "-" and those that are omitempty and empty.
JSONObject(fields) ==
    LET kept == {i \in 1..Len(fields) :
                    /\ fields[i].name # "-"
                    /\ ~(fields[i].omitempty /\ IsEmptyValue(fields[i]))}
    IN [n \in {fields[i].name : i \in kept} |->
            fields[CHOOSE i \in kept : fields[i].name = n].value]

\* The zero spacesClientSummary, and the struct as JSON.
NoClient == [ID |-> "", Name |-> "", Version |-> ""]

spacesClientSummary(c) ==
    JSONObject(<<Field("id", "string", FALSE, c.ID),
                 Field("name", "string", FALSE, c.Name),
                 Field("version", "string", FALSE, c.Version)>>)

\* Faulty variant, for mutation analysis: startTime is encoded even when it is zero.
spacesRunPayloadStartTimeKept(p) ==
    JSONObject(<<Field("startTime", "int", FALSE, p.StartTime),
                 Field("endTime", "int", TRUE, p.EndTime),
                 Field("status", "string", TRUE, p.Status),
                 Field("type", "string", TRUE, p.Type),
                 Field("exitCode", "int", TRUE, p.ExitCode),
                 Field("command", "string", TRUE, p.Command),
                 Field("repositoryPath", "string", TRUE, p.RepositoryPath),
                 Field("context", "string", TRUE, p.Context),
                 Field("client", "struct", FALSE, spacesClientSummary(p.Client)),
                 Field("gitBranch", "string", FALSE, p.GitBranch),
                 Field("gitSha", "string", FALSE, p.GitSha),
                 Field("originationUser", "string", TRUE, p.User)>>)

\* The struct spacesRunPayload as JSON, by its tags.
spacesRunPayload(p) ==
    JSONObject(<<Field("startTime", "int", TRUE, p.StartTime),
                 Field("endTime", "int", TRUE, p.EndTime),
                 Field("status", "string", TRUE, p.Status),
                 Field("type", "string", TRUE, p.Type),
                 Field("exitCode", "int", TRUE, p.ExitCode),
                 Field("command", "string", TRUE, p.Command),
                 Field("repositoryPath", "string", TRUE, p.RepositoryPath),
                 Field("context", "string", TRUE, p.Context),
                 Field("client", "struct", FALSE, spacesClientSummary(p.Client)),
                 Field("gitBranch", "string", FALSE, p.GitBranch),
                 Field("gitSha", "string", FALSE, p.GitSha),
                 Field("originationUser", "string", TRUE, p.User)>>)

\* Faulty variant, for mutation analysis: Local and Remote are encoded under the names local and remote.
spacesCacheStatusWithFlags(c) ==
    JSONObject(<<Field("local", "bool", FALSE, c.Local),
                 Field("remote", "bool", FALSE, c.Remote),
                 Field("status", "string", FALSE, c.Status),
                 Field("source", "string", TRUE, c.Source),
                 Field("timeSaved", "int", FALSE, c.TimeSaved)>>)

\* The struct spacesCacheStatus as JSON: Local and Remote are tagged "-".
spacesCacheStatus(c) ==
    JSONObject(<<Field("-", "bool", FALSE, c.Local),
                 Field("-", "bool", FALSE, c.Remote),
                 Field("status", "string", FALSE, c.Status),
                 Field("source", "string", TRUE, c.Source),
                 Field("timeSaved", "int", FALSE, c.TimeSaved)>>)

\* The struct spacesTask as JSON, by its tags; omitempty does not drop the
\* cache, which is a struct.
spacesTask(t) ==
    JSONObject(<<Field("key", "string", TRUE, t.Key),
                 Field("name", "string", TRUE, t.Name),
                 Field("workspace", "string", TRUE, t.Workspace),
                 Field("hash", "string", TRUE, t.Hash),
                 Field("startTime", "int", TRUE, t.StartTime),
                 Field("endTime", "int", TRUE, t.EndTime),
                 Field("cache", "struct", TRUE, spacesCacheStatus(t.Cache)),
                 Field("exitCode", "int", TRUE, t.ExitCode),
                 Field("dependencies", "slice", TRUE, t.Dependencies),
                 Field("dependents", "slice", TRUE, t.Dependents),
                 Field("log", "string", FALSE, t.Logs)>>)

\* newSpacesDonePayload: the fields it does not name keep their zero values.
newSpacesDonePayload(runsummary) ==
    [StartTime |-> 0,
     EndTime |-> UnixMilli(runsummary.ExecutionSummary.endedAt),
     Status |-> "completed",
     Type |-> "",
     ExitCode |-> runsummary.ExecutionSummary.exitCode,
     Command |-> "",
     RepositoryPath |-> "",
     Context |-> "",
     Client |-> NoClient,
     GitBranch |-> "",
     GitSha |-> "",
     User |-> ""]

\* newSpacesTaskPayload; Execution.exitCode is a pointer, here a sequence of
\* length 0 (nil) or 1, and the conversion spacesCacheStatus(CacheSummary)
\* keeps every field of the cache summary.
newSpacesTaskPayload(taskSummary) ==
    [Key |-> taskSummary.TaskID,
     Name |-> taskSummary.Task,
     Workspace |-> taskSummary.Package,
     Hash |-> taskSummary.Hash,
     StartTime |-> UnixMilli(taskSummary.Execution.startAt),
     EndTime |-> UnixMilli(taskSummary.Execution.endTime),
     Cache |-> [Local |-> taskSummary.CacheSummary.Local,
                Remote |-> taskSummary.CacheSummary.Remote,
                Status |-> taskSummary.CacheSummary.Status,
                Source |-> taskSummary.CacheSummary.Source,
                TimeSaved |-> taskSummary.CacheSummary.TimeSaved],
     ExitCode |-> taskSummary.Execution.exitCode[1],
     Dependencies |-> taskSummary.Dependencies,
     Dependents |-> taskSummary.Dependents,
     Logs |-> taskSummary.Logs]

\* The run summaries handed to newSpacesDonePayload.
RunSummaries ==
    [kind : {"run"},
     ExecutionSummary : [endedAt : Times, exitCode : 0..MaxExitCode]]

\* The task summaries handed to newSpacesTaskPayload.
TaskSummaries ==
    [kind : {"task"},
     TaskID : {"", "web#build"},
     Task : {"build"},
     Package : {"web"},
     Hash : {"", "abc123"},
     Execution : [startAt : {[sec |-> 0, nsec |-> 0]},
                  endTime : {[sec |-> MaxSec, nsec |-> 999999]},
                  exitCode : {<<>>} \cup {<<e>> : e \in 0..MaxExitCode}],
     CacheSummary : [Local : BOOLEAN, Remote : BOOLEAN, Status : {"HIT", "MISS"},
                     Source : {"", "LOCAL"}, TimeSaved : 0..MaxTimeSaved],
     Dependencies : {<<>>, <<"web#lint">>},
     Dependents : {<<>>},
     Logs : {"", "cache hit, replaying output"}]

NoSummary == [kind |-> "none"]

\* No builder has been called.
NoBody == [builder |-> "none", payload |-> <<>>, json |-> <<>>]

----------------------------------------------------------------------------
\* The orchestrator: the call sequences it may make

ContractScript == <<"startRun", "postTasks", "finishRun", "Close">>

Scripts ==
    { ContractScript,
      ContractScript \o <<"Close">>,
      <<"Close">>,
      <<"Close", "Close">>,
      <<"Close", "startRun">> }

IsPrefix(s, t) == Len(s) <= Len(t) /\ SubSeq(t, 1, Len(s)) = s

\* The calls the orchestrator may make next.
NextOps ==
    { s[Len(called) + 1] : s \in { t \in plan.scripts : IsPrefix(called, t) /\ Len(t) > Len(called) } }

LastCall == called[Len(called)]

PostersReturned == \A t \in DOMAIN posters : posters[t] = "returned"

----------------------------------------------------------------------------
\* Worker goroutines

Worker(pc, req, opener, err, snap, resp) ==
    [pc |-> pc, req |-> req, opener |-> opener, err |-> err, snap |-> snap, resp |-> resp]

Spawned == Worker("spawned", NoReq, FALSE, NoErr, <<>>, "")
AtRecv == Worker("recv", NoReq, FALSE, NoErr, <<>>, "")
Exited == Worker("exited", NoReq, FALSE, NoErr, <<>>, "")

\* The pool with one worker in local state w now in local state w2.
Swap(w, w2) == (workers (-) SetToBag({w})) (+) SetToBag({w2})

\* History of one descriptor: how often a worker received it, makeRequest was
\* entered with it, the transport was called for it, an error was appended for
\* it and makeRequest returned from it; what the transport returned and how
\* the request ended.
HistInit == [received |-> 0, made |-> 0, calls |-> 0, appended |-> 0, done |-> 0,
             transport |-> "none", result |-> "none"]

\* The state newSpacesClient returns: eight goroutines spawned, nothing sent.
\* The run has at most n tasks.
InitWith(n, scripts) ==
    /\ rsm \in [spaceID : {"", "space"}]
    /\ api \in [linked : BOOLEAN]
    /\ plan \in [tasks : 0..n, scripts : {scripts}]
    /\ called = <<>>
    /\ mainPc = "idle"
    /\ posters = <<>>
    /\ workers = (Spawned :> processors)
    /\ wg = processors
    /\ requestsClosed = FALSE
    /\ firstReqDone = FALSE
    /\ created = FALSE
    /\ run = [ID |-> "", URL |-> ""]
    /\ errors = <<>>
    /\ panic = "none"
    /\ hist = [k \in Keys |-> HistInit]
    /\ summary = NoSummary
    /\ body = NoBody

Init == InitWith(MaxTasks, Scripts)

Running == panic = "none"

\* go func() { ... }: a spawned goroutine starts running and reaches the range.
WorkerStart(w) ==
    /\ Running
    /\ w.pc = "spawned"
    /\ workers' = Swap(w, AtRecv)
    /\ UNCHANGED <<summary, body, rsm, api, plan, called, mainPc, posters, wg, requestsClosed,
                   firstReqDone, created, run, errors, panic, hist>>

\* The worker's local state once it has received req.
Received(req) == Worker("lock", req, FALSE, NoErr, <<>>, "")

\* Faulty variant, for mutation analysis: startRun returns as soon as a worker has received its descriptor.
RecvMainNoWait(w) ==
    /\ Running
    /\ w.pc = "recv"
    /\ mainPc = "send"
    /\ ~requestsClosed
    /\ LET req == IF LastCall = "startRun" THEN StartRunRequest ELSE FinishRunRequest
       IN /\ workers' = Swap(w, Received(req))
          /\ hist' = [hist EXCEPT ![req.key].received = @ + 1]
          /\ mainPc' = "idle"
    /\ UNCHANGED <<summary, body, rsm, api, plan, called, posters, wg, requestsClosed,
                   firstReqDone, created, run, errors, panic>>

\* for req := range c.requests, with the orchestrator's thread as the sender
\* (startRun or finishRun): the send completes with the receive.
RecvMain(w) ==
    /\ Running
    /\ w.pc = "recv"
    /\ mainPc = "send"
    /\ ~requestsClosed
    /\ LET req == IF LastCall = "startRun" THEN StartRunRequest ELSE FinishRunRequest
       IN /\ workers' = Swap(w, Received(req))
          /\ hist' = [hist EXCEPT ![req.key].received = @ + 1]
          /\ mainPc' = IF LastCall = "startRun" THEN "waitCreated" ELSE "idle"
    /\ UNCHANGED <<summary, body, rsm, api, plan, called, posters, wg, requestsClosed,
                   firstReqDone, created, run, errors, panic>>

\* Faulty variant, for mutation analysis: the worker takes the descriptor but the send does not complete, so
\* the descriptor stays on offer.
RecvTaskNoAck(w, t) ==
    /\ Running
    /\ w.pc = "recv"
    /\ t \in DOMAIN posters
    /\ posters[t] = "send"
    /\ ~requestsClosed
    /\ workers' = Swap(w, Received(PostTaskRequest(t)))
    /\ hist' = [hist EXCEPT ![TaskKey(t)].received = @ + 1]
    /\ UNCHANGED <<summary, body, rsm, api, plan, called, mainPc, posters, wg, requestsClosed,
                   firstReqDone, created, run, errors, panic>>

\* for req := range c.requests, with a postTask caller as the sender.
RecvTask(w, t) ==
    /\ Running
    /\ w.pc = "recv"
    /\ t \in DOMAIN posters
    /\ posters[t] = "send"
    /\ ~requestsClosed
    /\ workers' = Swap(w, Received(PostTaskRequest(t)))
    /\ hist' = [hist EXCEPT ![TaskKey(t)].received = @ + 1]
    /\ posters' = [posters EXCEPT ![t] = "returned"]
    /\ UNCHANGED <<summary, body, rsm, api, plan, called, mainPc, wg, requestsClosed,
                   firstReqDone, created, run, errors, panic>>

\* Faulty variant, for mutation analysis: the worker leaves its loop without c.wg.Done().
WorkerExitNoDone(w) ==
    /\ Running
    /\ w.pc = "recv"
    /\ requestsClosed
    /\ workers' = Swap(w, Exited)
    /\ UNCHANGED <<summary, body, rsm, api, plan, called, mainPc, posters, wg, requestsClosed,
                   firstReqDone, created, run, errors, panic, hist>>

\* The range ends on the closed channel; defer c.wg.Done().
WorkerExit(w) ==
    /\ Running
    /\ w.pc = "recv"
    /\ requestsClosed
    /\ workers' = Swap(w, Exited)
    /\ wg' = wg - 1
    /\ UNCHANGED <<summary, body, rsm, api, plan, called, mainPc, posters, requestsClosed,
                   firstReqDone, created, run, errors, panic, hist>>

\* Faulty variant, for mutation analysis: the gate opener closes c.run.created before it calls makeRequest.
LockCloseFirst(w) ==
    /\ Running
    /\ w.pc = "lock"
    /\ workers' = Swap(w, [w EXCEPT !.pc = "makeRequest"])
    /\ firstReqDone' = TRUE
    /\ created' = TRUE
    /\ UNCHANGED <<summary, body, rsm, api, plan, called, mainPc, posters, wg, requestsClosed,
                   run, errors, panic, hist>>

\* Faulty variant, for mutation analysis: the worker that finds firstReqDone unset does not set it.
LockFlagNotSet(w) ==
    /\ Running
    /\ w.pc = "lock"
    /\ workers' = Swap(w, [w EXCEPT !.pc = "makeRequest", !.opener = ~firstReqDone])
    /\ UNCHANGED <<summary, body, rsm, api, plan, called, mainPc, posters, wg, requestsClosed,
                   firstReqDone, created, run, errors, panic, hist>>

\* mu.Lock(); if !firstReqDone { firstReqDone = true }; mu.Unlock()
Lock(w) ==
    /\ Running
    /\ w.pc = "lock"
    /\ workers' = Swap(w, [w EXCEPT !.pc = "makeRequest", !.opener = ~firstReqDone])
    /\ firstReqDone' = TRUE
    /\ UNCHANGED <<summary, body, rsm, api, plan, called, mainPc, posters, wg, requestsClosed,
                   created, run, errors, panic, hist>>

\* The worker's local state after makeRequest has returned: the gate opener
\* goes on to close c.run.created, every other worker back to the range.
Returned(w) ==
    IF w.opener
    THEN Worker("closeCreated", NoReq, TRUE, NoErr, <<>>, "")
    ELSE AtRecv

\* A failed step: the worker is at c.errors = append(c.errors, e).
Failing(w, req, e) == Worker("append", req, w.opener, e, <<>>, "")

\* json.Marshal(req.body): the three payloads (spacesRunPayload twice, spacesTask)
\* hold only strings, integers, booleans and string slices, which always encode.
Marshals(req) == req.key[1] \in {"start", "task", "finish"}

\* makeRequest up to the transport call: makeURL, the space ID, the link, the
\* method and json.Marshal, in this order; the first failure is appended to
\* c.errors and ends the request.
MakeRequest(w) ==
    /\ Running
    /\ w.pc = "makeRequest"
    /\ IF w.req.makeURL # "nil" /\ run.ID = ""
       THEN /\ workers' = Swap(w, Failing(w, w.req, MakeURLError(w.req, run)))
            /\ hist' = [hist EXCEPT ![w.req.key].made = @ + 1,
                                    ![w.req.key].result = "NoRunID"]
       ELSE LET req == IF w.req.makeURL # "nil" THEN MakeURL(w.req, run) ELSE w.req
                k == req.key
            IN IF rsm.spaceID = ""
               THEN /\ workers' = Swap(w, Failing(w, req, ReqError(req, "No spaceID found")))
                    /\ hist' = [hist EXCEPT ![k].made = @ + 1, ![k].result = "NoSpaceID"]
               ELSE IF ~api.linked
               THEN /\ workers' = Swap(w, Failing(w, req, ReqError(req, "Repo is not linked to a Space")))
                    /\ hist' = [hist EXCEPT ![k].made = @ + 1, ![k].result = "NotLinked"]
               ELSE IF req.method \notin {"POST", "PATCH"}
               THEN /\ workers' = Swap(w, Failing(w, req, ReqError(req, "Unsupported method")))
                    /\ hist' = [hist EXCEPT ![k].made = @ + 1, ![k].result = "Method"]
               ELSE IF ~Marshals(req)
               THEN /\ workers' = Swap(w, Failing(w, req, ReqError(req, "Failed to create payload")))
                    /\ hist' = [hist EXCEPT ![k].made = @ + 1, ![k].result = "Marshal"]
               ELSE /\ workers' = Swap(w, [w EXCEPT !.pc = "transport", !.req = req])
                    /\ hist' = [hist EXCEPT ![k].made = @ + 1, ![k].calls = @ + 1]
    /\ UNCHANGED <<summary, body, rsm, api, plan, called, mainPc, posters, wg, requestsClosed,
                   firstReqDone, created, run, errors, panic>>

\* What c.api.JSONPost / JSONPatch may return: an error, or a response; the
\* response matters only to the onDone handler of startRun, which decodes it:
\* nil, a body with an id, a body without one, a body that is no JSON, and a
\* body whose id decodes before a later field fails.
Responses(req) ==
    IF req.onDone = "nil"
    THEN {"error", "body"}
    ELSE {"error", "nil", "id", "noid", "garbled", "partial"}

\* Faulty variant, for mutation analysis: the onDone handler is called whatever the transport returned.
TransportReturnAlwaysOnDone(w) ==
    /\ Running
    /\ w.pc = "transport"
    /\ \E resp \in Responses(w.req) :
          IF w.req.onDone # "nil"
          THEN /\ workers' = Swap(w, [w EXCEPT !.pc = "onDone",
                                                !.resp = IF resp = "error" THEN "nil" ELSE resp])
               /\ hist' = [hist EXCEPT ![w.req.key].transport =
                                           IF resp = "error" THEN "error" ELSE "ok"]
          ELSE IF resp = "error"
          THEN /\ workers' = Swap(w, Failing(w, w.req, ReqError(w.req, "transport")))
               /\ hist' = [hist EXCEPT ![w.req.key].transport = "error",
                                       ![w.req.key].result = "Transport"]
          ELSE /\ workers' = Swap(w, Returned(w))
               /\ hist' = [hist EXCEPT ![w.req.key].transport = "ok",
                                       ![w.req.key].result = "ok",
                                       ![w.req.key].done = @ + 1]
    /\ UNCHANGED <<summary, body, rsm, api, plan, called, mainPc, posters, wg, requestsClosed,
                   firstReqDone, created, run, errors, panic>>

\* The transport call returns; on an error the request ends with the error
\* appended, otherwise the onDone handler runs, if there is one.
TransportReturn(w) ==
    /\ Running
    /\ w.pc = "transport"
    /\ \E resp \in Responses(w.req) :
          IF resp = "error"
          THEN /\ workers' = Swap(w, Failing(w, w.req, ReqError(w.req, "transport")))
               /\ hist' = [hist EXCEPT ![w.req.key].transport = "error",
                                       ![w.req.key].result = "Transport"]
          ELSE IF w.req.onDone # "nil"
          THEN /\ workers' = Swap(w, [w EXCEPT !.pc = "onDone", !.resp = resp])
               /\ hist' = [hist EXCEPT ![w.req.key].transport = "ok"]
          ELSE /\ workers' = Swap(w, Returned(w))
               /\ hist' = [hist EXCEPT ![w.req.key].transport = "ok",
                                       ![w.req.key].result = "ok",
                                       ![w.req.key].done = @ + 1]
    /\ UNCHANGED <<summary, body, rsm, api, plan, called, mainPc, posters, wg, requestsClosed,
                   firstReqDone, created, run, errors, panic>>

\* json.Unmarshal(response, c.run): the run after decoding resp into it.
Unmarshal(resp, r) ==
    IF resp \in {"id", "partial"} THEN [ID |-> "run", URL |-> "url"] ELSE r

UnmarshalFails(resp) == resp \in {"garbled", "partial"}

\* The onDone handler of startRun: nothing on a nil response; otherwise the
\* response is decoded into c.run and a decoding error is appended to c.errors.
OnDone(w) ==
    /\ Running
    /\ w.pc = "onDone"
    /\ IF w.resp = "nil"
       THEN /\ workers' = Swap(w, Returned(w))
            /\ hist' = [hist EXCEPT ![w.req.key].result = "ok", ![w.req.key].done = @ + 1]
            /\ run' = run
       ELSE /\ run' = Unmarshal(w.resp, run)
            /\ IF UnmarshalFails(w.resp)
               THEN /\ workers' = Swap(w, Failing(w, w.req, Errorf(w.req, "Error unmarshaling response")))
                    /\ hist' = [hist EXCEPT ![w.req.key].result = "Unmarshal"]
               ELSE /\ workers' = Swap(w, Returned(w))
                    /\ hist' = [hist EXCEPT ![w.req.key].result = "ok",
                                            ![w.req.key].done = @ + 1]
    /\ UNCHANGED <<summary, body, rsm, api, plan, called, mainPc, posters, wg, requestsClosed,
                   firstReqDone, created, errors, panic>>

\* c.errors = append(c.errors, e) takes no lock: the worker first reads the
\* slice ...
AppendRead(w) ==
    /\ Running
    /\ w.pc = "append"
    /\ workers' = Swap(w, [w EXCEPT !.pc = "appendWrite", !.snap = errors])
    /\ UNCHANGED <<summary, body, rsm, api, plan, called, mainPc, posters, wg, requestsClosed,
                   firstReqDone, created, run, errors, panic, hist>>

\* Faulty variant, for mutation analysis: after recording the error the worker calls makeRequest again with
\* the same descriptor.
AppendWriteRetry(w) ==
    /\ Running
    /\ w.pc = "appendWrite"
    /\ errors' = Append(w.snap, w.err)
    /\ workers' = Swap(w, [w EXCEPT !.pc = "makeRequest", !.err = NoErr, !.snap = <<>>])
    /\ hist' = [hist EXCEPT ![w.req.key].appended = @ + 1]
    /\ UNCHANGED <<summary, body, rsm, api, plan, called, mainPc, posters, wg, requestsClosed,
                   firstReqDone, created, run, panic>>

\* Faulty variant, for mutation analysis: the error is stored twice.
AppendWriteTwice(w) ==
    /\ Running
    /\ w.pc = "appendWrite"
    /\ errors' = Append(Append(w.snap, w.err), w.err)
    /\ workers' = Swap(w, Returned(w))
    /\ hist' = [hist EXCEPT ![w.req.key].appended = @ + 1, ![w.req.key].done = @ + 1]
    /\ UNCHANGED <<summary, body, rsm, api, plan, called, mainPc, posters, wg, requestsClosed,
                   firstReqDone, created, run, panic>>

\* ... and then stores the slice it read, extended by its error; makeRequest
\* returns.
AppendWrite(w) ==
    /\ Running
    /\ w.pc = "appendWrite"
    /\ errors' = Append(w.snap, w.err)
    /\ workers' = Swap(w, Returned(w))
    /\ hist' = [hist EXCEPT ![w.req.key].appended = @ + 1, ![w.req.key].done = @ + 1]
    /\ UNCHANGED <<summary, body, rsm, api, plan, called, mainPc, posters, wg, requestsClosed,
                   firstReqDone, created, run, panic>>

\* Faulty variant, for mutation analysis: the gate opener goes back to the range without closing c.run.created.
CloseCreatedSkipped(w) ==
    /\ Running
    /\ w.pc = "closeCreated"
    /\ workers' = Swap(w, AtRecv)
    /\ UNCHANGED <<summary, body, rsm, api, plan, called, mainPc, posters, wg, requestsClosed,
                   firstReqDone, created, run, errors, panic, hist>>

\* close(c.run.created), by the worker that found firstReqDone unset; closing
\* a closed channel panics.
CloseCreated(w) ==
    /\ Running
    /\ w.pc = "closeCreated"
    /\ workers' = Swap(w, AtRecv)
    /\ IF created
       THEN panic' = "close of closed channel" /\ created' = created
       ELSE created' = TRUE /\ panic' = panic
    /\ UNCHANGED <<summary, body, rsm, api, plan, called, mainPc, posters, wg, requestsClosed,
                   firstReqDone, run, errors, hist>>

----------------------------------------------------------------------------
\* The orchestrator's calls

\* startRun is called and reaches c.requests <- ...
StartRun ==
    /\ Running
    /\ mainPc = "idle"
    /\ "startRun" \in NextOps
    /\ called' = Append(called, "startRun")
    /\ mainPc' = "send"
    /\ UNCHANGED <<summary, body, rsm, api, plan, posters, workers, wg, requestsClosed,
                   firstReqDone, created, run, errors, panic, hist>>

\* Faulty variant, for mutation analysis: startRun returns without waiting for c.run.created.
StartRunNoWait ==
    /\ Running
    /\ mainPc = "waitCreated"
    /\ mainPc' = "idle"
    /\ UNCHANGED <<summary, body, rsm, api, plan, called, posters, workers, wg, requestsClosed,
                   firstReqDone, created, run, errors, panic, hist>>

\* <-c.run.created: startRun returns once the channel is closed.
StartRunCreated ==
    /\ Running
    /\ mainPc = "waitCreated"
    /\ created
    /\ mainPc' = "idle"
    /\ UNCHANGED <<summary, body, rsm, api, plan, called, posters, workers, wg, requestsClosed,
                   firstReqDone, created, run, errors, panic, hist>>

\* The orchestrator's task goroutines call postTask, each for its own task,
\* and reach c.requests <- ...
PostTasks ==
    /\ Running
    /\ mainPc = "idle"
    /\ "postTasks" \in NextOps
    /\ called' = Append(called, "postTasks")
    /\ posters' = [t \in 1..plan.tasks |-> "send"]
    /\ UNCHANGED <<summary, body, rsm, api, plan, mainPc, workers, wg, requestsClosed,
                   firstReqDone, created, run, errors, panic, hist>>

\* finishRun is called, once every postTask call has returned, and reaches
\* c.requests <- ...
FinishRun ==
    /\ Running
    /\ mainPc = "idle"
    /\ "finishRun" \in NextOps
    /\ PostersReturned
    /\ called' = Append(called, "finishRun")
    /\ mainPc' = "send"
    /\ UNCHANGED <<summary, body, rsm, api, plan, posters, workers, wg, requestsClosed,
                   firstReqDone, created, run, errors, panic, hist>>

\* A send on the closed channel panics.
SendOnClosed ==
    /\ Running
    /\ mainPc = "send"
    /\ requestsClosed
    /\ panic' = "send on closed channel"
    /\ UNCHANGED <<summary, body, rsm, api, plan, called, mainPc, posters, workers, wg, requestsClosed,
                   firstReqDone, created, run, errors, hist>>

\* Faulty variant, for mutation analysis: Close waits for the workers without closing c.requests.
CloseWithoutClosing ==
    /\ Running
    /\ mainPc = "idle"
    /\ "Close" \in NextOps
    /\ PostersReturned
    /\ called' = Append(called, "Close")
    /\ mainPc' = "wgWait"
    /\ UNCHANGED <<summary, body, rsm, api, plan, posters, workers, wg, requestsClosed,
                   firstReqDone, created, run, errors, panic, hist>>

\* Close: close(c.requests), which panics on a closed channel, ...
Close ==
    /\ Running
    /\ mainPc = "idle"
    /\ "Close" \in NextOps
    /\ PostersReturned
    /\ called' = Append(called, "Close")
    /\ IF requestsClosed
       THEN /\ panic' = "close of closed channel"
            /\ UNCHANGED <<requestsClosed, mainPc>>
       ELSE /\ requestsClosed' = TRUE
            /\ mainPc' = "wgWait"
            /\ panic' = panic
    /\ UNCHANGED <<summary, body, rsm, api, plan, posters, workers, wg,
                   firstReqDone, created, run, errors, hist>>

\* Faulty variant, for mutation analysis: Close returns without waiting for the workers.
CloseWaitNoWait ==
    /\ Running
    /\ mainPc = "wgWait"
    /\ mainPc' = "idle"
    /\ UNCHANGED <<summary, body, rsm, api, plan, called, posters, workers, wg, requestsClosed,
                   firstReqDone, created, run, errors, panic, hist>>

\* ... then c.wg.Wait(): Close returns once every worker has called Done.
CloseWait ==
    /\ Running
    /\ mainPc = "wgWait"
    /\ wg = 0
    /\ mainPc' = "idle"
    /\ UNCHANGED <<summary, body, rsm, api, plan, called, posters, workers, wg, requestsClosed,
                   firstReqDone, created, run, errors, panic, hist>>

Next ==
    \/ \E w \in BagToSet(workers) : WorkerStart(w)
    \/ \E w \in BagToSet(workers) : RecvMain(w)
    \/ \E w \in BagToSet(workers), t \in 1..MaxTasks : RecvTask(w, t)
    \/ \E w \in BagToSet(workers) : WorkerExit(w)
    \/ \E w \in BagToSet(workers) : Lock(w)
    \/ \E w \in BagToSet(workers) : MakeRequest(w)
    \/ \E w \in BagToSet(workers) : TransportReturn(w)
    \/ \E w \in BagToSet(workers) : OnDone(w)
    \/ \E w \in BagToSet(workers) : AppendRead(w)
    \/ \E w \in BagToSet(workers) : AppendWrite(w)
    \/ \E w \in BagToSet(workers) : CloseCreated(w)
    \/ StartRun
    \/ StartRunCreated
    \/ PostTasks
    \/ FinishRun
    \/ SendOnClosed
    \/ Close
    \/ CloseWait

Spec == Init /\ [][Next]_vars

\* The runs checked for liveness: a step that can be taken is eventually taken
\* (the Go scheduler runs every runnable goroutine, every transport call
\* returns, and the orchestrator goes on to its next call).
FairInit == InitWith(MaxFairTasks, Scripts)

FairSpec == FairInit /\ [][Next]_vars /\ WF_vars(Next)

\* The runs in which the orchestrator does not keep to its order of calls: its
\* task goroutines call postTask while startRun has not been called or has not
\* returned.
EarlyScript == <<"postTasks", "startRun", "Close">>

EarlyInit == InitWith(MaxEarlyTasks, Scripts \cup {EarlyScript})

EarlySpec == EarlyInit /\ [][Next]_vars /\ WF_vars(Next)

\* The payload builders on their own: a summary is handed to its builder and
\* the payload it returns is encoded by json.Marshal, as in finishRun and
\* postTask (body: newSpaces...Payload(...)) and makeRequest.
PayloadInit ==
    /\ summary \in RunSummaries \cup TaskSummaries
    /\ body = NoBody
    /\ rsm = [spaceID |-> "space"]
    /\ api = [linked |-> TRUE]
    /\ plan = [tasks |-> 0, scripts |-> {}]
    /\ called = <<>>
    /\ mainPc = "idle"
    /\ posters = <<>>
    /\ workers = (Spawned :> processors)
    /\ wg = processors
    /\ requestsClosed = FALSE
    /\ firstReqDone = FALSE
    /\ created = FALSE
    /\ run = [ID |-> "", URL |-> ""]
    /\ errors = <<>>
    /\ panic = "none"
    /\ hist = [k \in Keys |-> HistInit]

\* body: newSpacesDonePayload(c.rsm.RunSummary), then json.Marshal(req.body).
BuildDonePayload ==
    /\ Running
    /\ summary.kind = "run"
    /\ body.builder = "none"
    /\ LET payload == newSpacesDonePayload(summary)
       IN body' = [builder |-> "newSpacesDonePayload", payload |-> payload,
                   json |-> spacesRunPayload(payload)]
    /\ UNCHANGED <<summary, rsm, api, plan, called, mainPc, posters, workers, wg,
                   requestsClosed, firstReqDone, created, run, errors, panic, hist>>

\* body: newSpacesTaskPayload(task), then json.Marshal(req.body), for a task
\* whose exit code is known.
BuildTaskPayload ==
    /\ Running
    /\ summary.kind = "task"
    /\ body.builder = "none"
    /\ Len(summary.Execution.exitCode) = 1
    /\ LET payload == newSpacesTaskPayload(summary)
       IN body' = [builder |-> "newSpacesTaskPayload", payload |-> payload,
                   json |-> spacesTask(payload)]
    /\ UNCHANGED <<summary, rsm, api, plan, called, mainPc, posters, workers, wg,
                   requestsClosed, firstReqDone, created, run, errors, panic, hist>>

\* newSpacesTaskPayload dereferences a nil Execution.exitCode.
BuildTaskPayloadNil ==
    /\ Running
    /\ summary.kind = "task"
    /\ body.builder = "none"
    /\ Len(summary.Execution.exitCode) = 0
    /\ panic' = "nil pointer dereference"
    /\ UNCHANGED <<summary, body, rsm, api, plan, called, mainPc, posters, workers, wg,
                   requestsClosed, firstReqDone, created, run, errors, hist>>

PayloadNext ==
    \/ BuildDonePayload
    \/ BuildTaskPayload
    \/ BuildTaskPayloadNil

PayloadSpec == PayloadInit /\ [][PayloadNext]_vars

----------------------------------------------------------------------------
\* Properties

\* Close has returned at the end of startRun(); postTask(t1..tn); finishRun(); Close().
ContractDone == called = ContractScript /\ mainPc = "idle"

\* The descriptors of this run's postTask and finishRun calls.
Dependents == {FinishKey} \cup {TaskKey(t) : t \in 1..plan.tasks}

MissingRunID == {"No Run ID found to post task", "No Run ID found to send PATCH request"}

\* The entries of the Error List recorded for descriptor k.
EntriesOf(k) == {i \in 1..Len(errors) : errors[i].key = k}

\* C1 as stated: after startRun(); postTask(t1..tn); finishRun(); Close(), if the
\* transport call of the create-run request returned without error, the Error
\* List holds no missing-run-id entry.
C1_TransportOkNoMissingRunID ==
    (ContractDone /\ hist[StartKey].transport = "ok")
        => \A i \in 1..Len(errors) : errors[i].msg \notin MissingRunID

\* C1 amended: in the sequence startRun(); postTask(t1..tn); finishRun(); Close(),
\* if the transport call of the create-run request returned without error and
\* its response gave the Run Handle a non-empty run ID, then no postTask or
\* finishRun descriptor fails its URL resolution and the Error List holds no
\* missing-run-id entry.
C1_RunIDNoMissingRunID ==
    (IsPrefix(called, ContractScript) /\ hist[StartKey].transport = "ok" /\ run.ID # "")
        => /\ \A i \in 1..Len(errors) : errors[i].msg \notin MissingRunID
           /\ \A k \in Keys : hist[k].result # "NoRunID"

\* Witness of C1: the whole sequence has run with two tasks and a run ID.
C1_Witness ==
    /\ ContractDone
    /\ hist[StartKey].transport = "ok"
    /\ run.ID # ""
    /\ plan.tasks >= 2
    /\ \A k \in Dependents : hist[k].done = 1

\* The create-run request failed before or in its transport call.
CreateRunFailed ==
    hist[StartKey].result \in {"NoSpaceID", "NotLinked", "Method", "Marshal", "Transport"}

\* C2: if the create-run request fails, then after Close every postTask and
\* finishRun descriptor has exactly one entry in the Error List, that entry is
\* the missing-run-id error of its URL resolver, and the transport was never
\* called for it.
C2_OneMissingRunIDEach ==
    (ContractDone /\ CreateRunFailed)
        => \A k \in Dependents :
              /\ Cardinality(EntriesOf(k)) = 1
              /\ \A i \in EntriesOf(k) : errors[i].msg \in MissingRunID
              /\ hist[k].calls = 0

\* Every worker has left its loop and called Done.
Drained == wg = 0 /\ CopiesIn(Exited, workers) = processors

\* C3: in startRun(); postTask(t1..tn); finishRun(); Close(), whichever requests
\* fail, every call returns and Close eventually returns with all workers gone:
\* nobody stays blocked.
C3_CloseReturns ==
    (called = <<"startRun">>) ~> (ContractDone /\ Drained /\ PostersReturned)

\* Witness of C3: Close has returned after a run whose create-run request and
\* task request both failed.
C3_Witness ==
    /\ ContractDone
    /\ Drained
    /\ plan.tasks >= 1
    /\ hist[StartKey].result = "Transport"
    /\ hist[TaskKey(1)].result = "NoRunID"

\* startRun, called first, has returned.
StartRunReturned ==
    /\ called # <<>>
    /\ called[1] = "startRun"
    /\ (Len(called) >= 2 \/ mainPc = "idle")

\* C4: startRun, called first, does not return before c.run.created is closed,
\* and once the create-run descriptor has been processed, with or without
\* success, it does return.
C4_StartRunReturnsAfterCreated ==
    /\ [](StartRunReturned => created)
    /\ (hist[StartKey].done = 1) ~> StartRunReturned

\* Witness of C4: startRun has returned although the create-run request failed.
C4_Witness ==
    /\ StartRunReturned
    /\ created
    /\ hist[StartKey].done = 1
    /\ hist[StartKey].result = "NotLinked"

\* The workers that hold descriptor k.
Holders(k) == {w \in BagToSet(workers) : w.req.key = k}

\* C5: each descriptor of the concurrent postTask calls is received by exactly
\* one worker and passed to makeRequest exactly once; none is lost once its
\* postTask has returned, and all have been processed when Close returns.
C5_TasksExactlyOnce ==
    \A t \in 1..plan.tasks :
        LET k == TaskKey(t) IN
        /\ hist[k].received <= 1 /\ hist[k].made <= 1 /\ hist[k].done <= 1
        /\ \A w \in Holders(k) : CopiesIn(w, workers) = 1
        /\ Cardinality(Holders(k)) <= 1
        /\ (t \in DOMAIN posters /\ posters[t] = "returned")
              => /\ hist[k].received = 1
                 /\ (hist[k].done = 0 => Cardinality(Holders(k)) = 1)
        /\ ContractDone => (hist[k].made = 1 /\ hist[k].done = 1)

\* Witness of C5: Close has returned after two tasks were posted, and the
\* second task's request ended before the first one's.
C5_Witness ==
    /\ ContractDone
    /\ plan.tasks >= 2
    /\ Len(errors) >= 2
    /\ errors[1].key = TaskKey(2)
    /\ errors[2].key = TaskKey(1)

\* C6: a second Close does not panic.
C6_SecondCloseNoPanic ==
    Cardinality({i \in 1..Len(called) : called[i] = "Close"}) >= 2 => panic = "none"

\* C7: Close on a freshly constructed client does not panic and is never
\* stuck; no error is recorded and c.run.created stays open; when it returns,
\* all eight workers have terminated.
C7_CloseFresh ==
    (called = <<"Close">>)
        => /\ panic = "none"
           /\ errors = <<>>
           /\ ~created
           /\ mainPc = "wgWait" => ENABLED Next
           /\ mainPc = "idle" => Drained

\* Witness of C7: Close has returned on a fresh client.
C7_Witness == called = <<"Close">> /\ mainPc = "idle" /\ Drained

\* The failures the workers have recorded: the append statements executed.
Recorded == Cardinality({k \in Keys : hist[k].appended = 1})

\* C8: appends to the Error List exclude each other, so after Close its length
\* is the number of failures the workers recorded.
C8_NoAppendLost ==
    /\ \A k \in Keys : hist[k].appended <= 1
    /\ ContractDone => Len(errors) = Recorded

\* C9: before Close, a caller inside postTask or finishRun is never blocked in
\* its send: some worker is at the receive.
C9_EnqueueNeverBlocks ==
    ( /\ ~requestsClosed
      /\ \/ \E t \in DOMAIN posters : posters[t] = "send"
         \/ (mainPc = "send" /\ LastCall = "finishRun") )
        => CopiesIn(AtRecv, workers) >= 1

\* C10: when startRun is called first and returns before any postTask or
\* finishRun, a worker about to call the makeURL of a postTask or finishRun
\* descriptor finds c.run.created closed and the create-run request finished.
C10_ResolveAfterCreateRun ==
    (called # <<>> /\ called[1] = "startRun")
        => \A w \in BagToSet(workers) :
              (w.pc = "makeRequest" /\ w.req.makeURL # "nil")
                  => (created /\ hist[StartKey].done = 1)

\* Witness of C10: two workers are about to resolve the URLs of a task and of
\* the finish request.
C10_Witness ==
    /\ StartRunReturned
    /\ \E w \in BagToSet(workers) : w.pc = "makeRequest" /\ w.req.makeURL = "postTask"
    /\ \E w \in BagToSet(workers) : w.pc = "makeRequest" /\ w.req.makeURL = "finishRun"

\* A call of Close has returned.
CloseReturned ==
    \E i \in 1..Len(called) :
        called[i] = "Close" /\ (i < Len(called) \/ mainPc = "idle")

\* C11: Close returns only after every descriptor a worker has taken from the
\* channel (its send completed) has been through makeRequest and all eight
\* workers have left their loop; once Close has returned no worker is running
\* and c.errors never changes again.
C11_CloseReturnsAfterDrain ==
    /\ [](CloseReturned =>
            /\ Drained
            /\ BagToSet(workers) = {Exited}
            /\ PostersReturned
            /\ \A k \in Keys : hist[k].received = hist[k].done)
    /\ [][CloseReturned => errors' = errors]_vars

\* Witness of C11: Close has returned after a run of two tasks in which the
\* workers recorded errors, every descriptor sent having been processed.
C11_Witness ==
    /\ CloseReturned
    /\ called = ContractScript
    /\ plan.tasks >= 2
    /\ Len(errors) >= 2
    /\ \A k \in Keys : hist[k].received = 1 /\ hist[k].done = 1

\* C12: every entry of c.errors, whatever step recorded it, starts with the
\* method and the URL of the request it was recorded for; and no failure
\* reaches the caller of postTask or finishRun, which never panic.
C12_EntriesCarryVerbAndURL ==
    /\ \A i \in 1..Len(errors) :
          /\ errors[i].prefix # <<>>
          /\ errors[i].prefix[1] \in {"POST", "PATCH"}
          /\ errors[i].prefix[2] # <<>>
    /\ panic # "none" => LastCall \notin {"postTasks", "finishRun"}

\* The worker that found firstReqDone unset has not yet returned from
\* makeRequest.
FirstInMakeRequest ==
    \E w \in BagToSet(workers) :
        w.opener /\ w.pc \in {"makeRequest", "transport", "onDone", "append", "appendWrite"}

\* C15: whatever the order of the calls, while the first request received is
\* still inside makeRequest, no other worker is past the start of makeRequest
\* with another request.
C15_OthersBlockedOnFirst ==
    FirstInMakeRequest
        => \A w \in BagToSet(workers) :
              ~w.opener => w.pc \notin {"transport", "onDone", "append", "appendWrite"}

\* The workers that found firstReqDone unset and have not yet closed
\* c.run.created.
Openers == {w \in BagToSet(workers) : w.opener}

\* C16: at most one worker ever finds firstReqDone unset, and exactly one once
\* a request has been received; c.run.created is closed by that worker only,
\* so never twice, and stays closed; and once a request has been processed the
\* channel gets closed.
C16_OneGateOpener ==
    /\ [](/\ Cardinality(Openers) <= 1
          /\ \A w \in Openers : CopiesIn(w, workers) = 1
          /\ created => (firstReqDone /\ Openers = {})
          /\ (firstReqDone /\ ~created) => Cardinality(Openers) = 1
          /\ ~firstReqDone => (Openers = {} /\ \A k \in Keys : hist[k].made = 0))
    /\ [][(created => created') /\ (firstReqDone => firstReqDone')]_vars
    /\ (\E k \in Keys : hist[k].done >= 1) ~> created

\* Witness of C16: c.run.created is closed after a run in which postTask was
\* called before startRun and both requests have been processed.
C16_Witness ==
    /\ created
    /\ called # <<>>
    /\ called[1] = "postTasks"
    /\ hist[StartKey].done = 1
    /\ hist[TaskKey(1)].done = 1
    /\ hist[TaskKey(1)].result = "ok"

\* C17: a failed descriptor is given up, never tried again: each descriptor is
\* received, passed to makeRequest and sent to the transport at most once; the
\* worker that recorded the failure no longer holds the descriptor and is back
\* at the range; a failure panics nobody, and every descriptor sent is still
\* processed by the time Close returns.
C17_FailureIsTerminalForOneDescriptor ==
    /\ \A k \in Keys :
          /\ hist[k].received <= 1 /\ hist[k].made <= 1 /\ hist[k].calls <= 1
          /\ hist[k].done = 1 => Holders(k) = {}
          /\ hist[k].appended = 1 => (hist[k].done = 1 /\ hist[k].result # "ok")
    /\ \A w \in BagToSet(workers) :
          w.req = NoReq => w.pc \in {"spawned", "recv", "closeCreated", "exited"}
    /\ panic # "none" => (requestsClosed /\ LastCall \in {"Close", "startRun"})
    /\ CloseReturned => \A k \in Keys : hist[k].received = hist[k].done

\* Witness of C17: the first task's request failed in the transport, and the
\* second task's and the finish request still succeeded.
C17_Witness ==
    /\ ContractDone
    /\ plan.tasks >= 2
    /\ hist[TaskKey(1)].result = "Transport"
    /\ hist[TaskKey(1)].done = 1
    /\ hist[TaskKey(2)].result = "ok"
    /\ hist[FinishKey].result = "ok"
    /\ errors # <<>>
    /\ errors[Len(errors)].key = TaskKey(1)

\* The steps of makeRequest that can fail before the transport is called, in
\* the order of the source.
Precondition == {"NoRunID", "NoSpaceID", "NotLinked", "Method", "Marshal"}

\* C18: makeRequest resolves the URL, checks the space ID, the link and the
\* method, encodes the body, calls the transport and then the onDone handler,
\* and gives up at the first step that fails: the transport is called only
\* with a resolved URL, a space ID and a linked repository; the failure
\* recorded is that of the first failing step; and the onDone handler runs
\* only after the transport has returned without an error.
C18_MakeRequestStepOrder ==
    /\ \A k \in Keys :
          /\ hist[k].calls >= 1
                => /\ rsm.spaceID # "" /\ api.linked
                   /\ hist[k].result \notin Precondition
                   /\ k # StartKey => run.ID # ""
          /\ hist[k].result \in Precondition => (hist[k].calls = 0 /\ hist[k].transport = "none")
          /\ hist[k].result = "NoRunID" => (k # StartKey /\ run.ID = "")
          /\ hist[k].result = "NoSpaceID" => (rsm.spaceID = "" /\ (k # StartKey => run.ID # ""))
          /\ hist[k].result = "NotLinked" => (rsm.spaceID # "" /\ ~api.linked)
          /\ hist[k].result \in {"Transport", "Unmarshal", "ok"} => hist[k].calls = 1
          /\ hist[k].result = "Transport" <=> hist[k].transport = "error"
          /\ hist[k].result = "Unmarshal" => (k = StartKey /\ hist[k].transport = "ok")
    /\ \A w \in BagToSet(workers) :
          /\ w.pc = "transport"
                => /\ w.req.url # <<>>
                   /\ w.req.makeURL # "nil" => w.req.url[4] = run.ID
                   /\ hist[w.req.key].transport = "none"
          /\ w.pc = "onDone"
                => /\ w.req.onDone # "nil"
                   /\ hist[w.req.key].transport = "ok"
                   /\ w.resp # "error"

\* Witness of C18: with neither a space ID nor a link, the create-run request
\* has failed on the space ID, the step checked first, and a task request on
\* its URL, and the transport was called for neither.
C18_Witness ==
    /\ rsm.spaceID = ""
    /\ ~api.linked
    /\ plan.tasks >= 1
    /\ hist[StartKey].result = "NoSpaceID"
    /\ hist[TaskKey(1)].result = "NoRunID"
    /\ hist[TaskKey(1)].done = 1
    /\ hist[StartKey].calls = 0

\* A worker is about to call the makeURL of a postTask or finishRun
\* descriptor, which reads run.ID.
ReadsRunID(w) == w.pc = "makeRequest" /\ w.req.makeURL # "nil"

\* The create-run descriptor is held by a worker that has not yet returned
\* from its onDone handler.
CreateRunPending ==
    \E w \in BagToSet(workers) :
        w.req.key = StartKey /\ w.pc \in {"lock", "makeRequest", "transport", "onDone"}

\* C19: c.run changes at most once, from empty, and only in the onDone handler
\* of the worker that holds the create-run descriptor; and when startRun is
\* called first and returns before any other call, no worker is about to read
\* run.ID while the create-run request can still write it: the handler has
\* returned before any makeURL runs.
C19_RunWrittenOnceBeforeReads ==
    /\ [][run' # run =>
            /\ run = [ID |-> "", URL |-> ""]
            /\ hist[StartKey].calls = 1 /\ hist[StartKey].transport = "ok"
            /\ \E w \in BagToSet(workers) : w.pc = "onDone" /\ w.req.key = StartKey
            /\ \A w \in BagToSet(workers') : w.req.key = StartKey => w.pc # "onDone"
            /\ (called[1] = "startRun") =>
                   \A w \in BagToSet(workers) : ~ReadsRunID(w)]_vars
    /\ []((called # <<>> /\ called[1] = "startRun")
            => \A w \in BagToSet(workers) :
                  ReadsRunID(w) => (~CreateRunPending /\ hist[StartKey].done = 1))

\* Witness of C19: startRun has returned with a run ID and a worker is about
\* to resolve a task's URL from it.
C19_Witness ==
    /\ StartRunReturned
    /\ run.ID # ""
    /\ hist[StartKey].result = "ok"
    /\ \E w \in BagToSet(workers) : ReadsRunID(w) /\ w.req.makeURL = "postTask"
    /\ ~CreateRunPending

\* The descriptors makeRequest has returned from.
Processed == {k \in Keys : hist[k].done = 1}

\* C20: a descriptor has at most one error appended and at most one entry in
\* c.errors, and none if its request succeeded; after a transport call that
\* returned without error only the create-run descriptor records an error,
\* exactly one, when its response does not decode; so c.errors is never longer
\* than the number of descriptors processed.
C20_AtMostOneEntryEach ==
    /\ \A k \in Keys :
          /\ hist[k].appended <= 1
          /\ Cardinality(EntriesOf(k)) <= hist[k].appended
          /\ hist[k].result = "ok" => (hist[k].appended = 0 /\ EntriesOf(k) = {})
          /\ (hist[k].transport = "ok" /\ k # StartKey) => hist[k].appended = 0
          /\ (hist[k].transport = "ok" /\ hist[k].done = 1)
                => (hist[k].appended = 1 <=> hist[k].result = "Unmarshal")
          /\ (k \in Processed /\ hist[k].result # "ok") => hist[k].appended = 1
    /\ Len(errors) <= Cardinality(Processed)

\* Witness of C20: the create-run response did not decode although it carried
\* the run ID, so the create-run descriptor has its one entry, and the task
\* and finish requests that followed succeeded and have none.
C20_Witness ==
    /\ ContractDone
    /\ plan.tasks >= 1
    /\ hist[StartKey].result = "Unmarshal"
    /\ Cardinality(EntriesOf(StartKey)) = 1
    /\ \A k \in Dependents : hist[k].result = "ok"
    /\ Len(errors) = 1

\* C13: for a run that ended with an exit code e other than 0, the payload of
\* newSpacesDonePayload has Status "completed", ExitCode e and EndTime the
\* milliseconds of the run's end, and its JSON has status "completed",
\* exitCode e, the endTime (unless it is 0) and no startTime.
C13_DonePayload ==
    (body.builder = "newSpacesDonePayload" /\ summary.ExecutionSummary.exitCode # 0)
        => /\ body.payload.Status = "completed"
           /\ body.payload.ExitCode = summary.ExecutionSummary.exitCode
           /\ body.payload.EndTime = UnixMilli(summary.ExecutionSummary.endedAt)
           /\ body.payload.StartTime = 0
           /\ "startTime" \notin DOMAIN body.json
           /\ {"status", "exitCode"} \subseteq DOMAIN body.json
           /\ body.json["status"] = "completed"
           /\ body.json["exitCode"] = summary.ExecutionSummary.exitCode
           /\ body.payload.EndTime # 0
                 => ("endTime" \in DOMAIN body.json
                        /\ body.json["endTime"] = body.payload.EndTime)

\* Witness of C13: the payload of a run that ended with exit code 1, encoded
\* with its end time.
C13_Witness ==
    /\ body.builder = "newSpacesDonePayload"
    /\ summary.ExecutionSummary.exitCode = 1
    /\ "endTime" \in DOMAIN body.json
    /\ body.json["endTime"] >= 1000
    /\ body.json["exitCode"] = 1

\* The JSON of a struct has the string v under name, or lacks name if v is "".
StringOmitEmpty(json, name, v) ==
    IF v = "" THEN name \notin DOMAIN json
    ELSE name \in DOMAIN json /\ json[name] = v

\* C14: the payload of newSpacesTaskPayload has Key, Name, Workspace and Hash
\* equal to the summary's TaskID, Task, Package and Hash, and they are encoded
\* as key, name, workspace and hash; the cache summary's Status, Source and
\* TimeSaved are copied and encoded unchanged; and the cache object of the JSON
\* has no member for Local or Remote, whatever their values.
C14_TaskPayload ==
    (body.builder = "newSpacesTaskPayload")
        => /\ body.payload.Key = summary.TaskID
           /\ body.payload.Name = summary.Task
           /\ body.payload.Workspace = summary.Package
           /\ body.payload.Hash = summary.Hash
           /\ body.payload.Cache.Status = summary.CacheSummary.Status
           /\ body.payload.Cache.Source = summary.CacheSummary.Source
           /\ body.payload.Cache.TimeSaved = summary.CacheSummary.TimeSaved
           /\ StringOmitEmpty(body.json, "key", summary.TaskID)
           /\ StringOmitEmpty(body.json, "name", summary.Task)
           /\ StringOmitEmpty(body.json, "workspace", summary.Package)
           /\ StringOmitEmpty(body.json, "hash", summary.Hash)
           /\ "cache" \in DOMAIN body.json
           /\ DOMAIN body.json["cache"] \subseteq {"status", "source", "timeSaved"}
           /\ body.json["cache"]["status"] = summary.CacheSummary.Status
           /\ body.json["cache"]["timeSaved"] = summary.CacheSummary.TimeSaved
           /\ StringOmitEmpty(body.json["cache"], "source", summary.CacheSummary.Source)

\* Witness of C14: the payload of the task web#build with hash abc123, restored
\* from the local cache with time saved.
C14_Witness ==
    /\ body.builder = "newSpacesTaskPayload"
    /\ summary.TaskID = "web#build"
    /\ summary.Hash = "abc123"
    /\ summary.Execution.exitCode = <<0>>
    /\ summary.CacheSummary.Local
    /\ ~summary.CacheSummary.Remote
    /\ summary.CacheSummary.Status = "HIT"
    /\ summary.CacheSummary.TimeSaved >= 1
    /\ body.json["key"] = "web#build"
    /\ body.json["cache"]["timeSaved"] = summary.CacheSummary.TimeSaved

====
